---- MODULE Spec2Model ----
(***************************************************************************)
(* Kanban board backend (src/main.py): the column and task collections of  *)
(* the document store and the six mutating HTTP handlers.                  *)
(*                                                                         *)
(* Spec     : every request runs to completion before the next starts.     *)
(* SpecRace : requests run on concurrent workers, one store call per step. *)
(*                                                                         *)
(* Optional[T] values of the request models are sequences of length <= 1:  *)
(* <<>> is None, <<v>> is the present value v.                             *)
(***************************************************************************)
EXTENDS Integers, Sequences, FiniteSets, TLC

\* ---- bounds ----
\* ObjectIds the store ever hands out (columns and tasks together).
MaxOid == 3
\* Requests served in one run.
MaxReqs == 4
\* Largest position a request body carries.
MaxPos == 2
\* Concurrent request workers (SpecRace).
MaxWorkers == 2
\* Requests served in one run of SpecRace.
MaxRaceReqs == 3

VARIABLES
    column,   \* db["column"]: ObjectId -> document
    task,     \* db["task"]:   ObjectId -> document
    nextOid,  \* the next ObjectId the store generates
    nreq,     \* requests started so far
    last,     \* the last completed request and its response (Spec)
    workers   \* in-flight requests: handler, locals, position (SpecRace)

vars == <<column, task, nextOid, nreq, last, workers>>

\* ---- values ----
None == <<>>
Some(v) == <<v>>
\* The stored form of a null description.
Null == "null"

Oids == 1..MaxOid
Workers == 1..MaxWorkers

\* str(ObjectId): 24 lower-case hex digits, here "oid<n>".
OidStr(n) == "oid" \o ToString(n)
\* The same 12 bytes spelled with upper-case hex digits: ObjectId() accepts
\* it, str() never produces it.
OidUpper(n) == "OID" \o ToString(n)

\* ObjectId, had it taken every string for an id.
ObjectId_unchecked(s) ==
    IF \E n \in Oids : s \in {OidStr(n), OidUpper(n)}
    THEN Some(CHOOSE n \in Oids : s \in {OidStr(n), OidUpper(n)})
    ELSE Some(1)

\* ObjectId(s): the parsed id in a one-element sequence, or <<>> when the
\* constructor raises.
ObjectId(s) ==
    IF \E n \in Oids : s \in {OidStr(n), OidUpper(n)}
    THEN Some(CHOOSE n \in Oids : s \in {OidStr(n), OidUpper(n)})
    ELSE None

\* to_str_id: _id is replaced by id = str(_id).
to_str_id(oid, doc) ==
    [k \in DOMAIN doc \cup {"id"} |-> IF k = "id" THEN OidStr(oid) ELSE doc[k]]

\* ---- request inputs ----
PathIds == {OidStr(n) : n \in Oids} \cup {OidUpper(1)} \cup {"not-an-id"}
\* column_id values of task bodies: never checked against the column
\* collection, so any string is accepted.
ColumnIds == {OidStr(1), OidStr(2)}
Positions == {0, MaxPos}

ColumnCreateBodies ==
    [name : {"Todo"}, position : {None} \cup {Some(p) : p \in Positions}]

ColumnUpdateBodies ==
    [name : {None, Some("Done")}, position : {None, Some(MaxPos)}]

\* position: None is a request without the field.
TaskCreateBodies ==
    [title : {"A"}, description : {None}, column_id : ColumnIds,
     position : {None} \cup {Some(p) : p \in Positions},
     priority : {None}, tags : {None}]

NoTaskUpdate ==
    [title |-> None, description |-> None, column_id |-> None,
     position |-> None, priority |-> None, tags |-> None]

TaskUpdateBodies ==
    {NoTaskUpdate,
     [NoTaskUpdate EXCEPT !.title = Some("B")],
     [NoTaskUpdate EXCEPT !.position = Some(MaxPos)],
     [NoTaskUpdate EXCEPT !.description = Some("d"), !.priority = Some("high"),
                          !.tags = Some(<<"x">>)]}
    \cup {[NoTaskUpdate EXCEPT !.column_id = Some(c)] : c \in ColumnIds}
    \cup {[NoTaskUpdate EXCEPT !.column_id = Some(c), !.position = Some(0)] :
             c \in ColumnIds}

\* ---- request models (pydantic defaults) ----
Default(opt, d) == IF opt = None THEN Some(d) ELSE opt

ColumnCreate(body) ==
    [name |-> body.name, position |-> Default(body.position, 0)]

TaskCreate(body) ==
    [title |-> body.title, description |-> body.description,
     column_id |-> body.column_id, position |-> Default(body.position, 0),
     priority |-> Default(body.priority, "normal"),
     tags |-> Default(body.tags, <<>>)]

\* Updates, had the None fields been kept.
Updates_unfiltered(payload) == [k \in DOMAIN payload |-> payload[k]]

\* {k: v for k, v in payload.model_dump().items() if v is not None}
Updates(payload) ==
    [k \in {f \in DOMAIN payload : payload[f] # None} |-> payload[k][1]]

\* ---- store operations ----
\* update_one, had it been called with upsert=True.
update_one_upsert(coll, oid, updates) ==
    IF oid \in DOMAIN coll
    THEN [coll EXCEPT ![oid] =
            [k \in DOMAIN coll[oid] \cup DOMAIN updates |->
                IF k \in DOMAIN updates THEN updates[k] ELSE coll[oid][k]]]
    ELSE [o \in DOMAIN coll \cup {oid} |-> IF o = oid THEN updates ELSE coll[o]]

\* update_one, had it been update_many with no filter.
update_one_unfiltered(coll, oid, updates) ==
    [o \in DOMAIN coll |->
        [k \in DOMAIN coll[o] \cup DOMAIN updates |->
            IF k \in DOMAIN updates THEN updates[k] ELSE coll[o][k]]]

\* update_one({"_id": oid}, {"$set": updates}): no upsert.  An empty $set
\* changes nothing (MongoDB 5.0 and later accept it).
update_one(coll, oid, updates) ==
    IF oid \in DOMAIN coll
    THEN [coll EXCEPT ![oid] =
            [k \in DOMAIN coll[oid] \cup DOMAIN updates |->
                IF k \in DOMAIN updates THEN updates[k] ELSE coll[oid][k]]]
    ELSE coll

\* delete_one({"_id": oid})
delete_one(coll, oid) == [o \in DOMAIN coll \ {oid} |-> coll[o]]

\* delete_many, had it matched on the parsed ObjectId's string.
delete_many_by_oid(coll, s) ==
    [o \in {t \in DOMAIN coll : coll[t].column_id # OidStr(ObjectId(s)[1])} |->
        coll[o]]

\* delete_many({"column_id": s})
delete_many(coll, s) ==
    [o \in {t \in DOMAIN coll : coll[t].column_id # s} |-> coll[o]]

\* insert_one
insert_one(coll, oid, doc) ==
    [o \in DOMAIN coll \cup {oid} |-> IF o = oid THEN doc ELSE coll[o]]

\* LastPos, had the sort been ascending.
LastPos_ascending(coll, c) ==
    LET found == {t \in DOMAIN coll : coll[t].column_id = c}
    IN  IF found = {} THEN 0
        ELSE LET top == CHOOSE t \in found :
                           \A u \in found : coll[u].position >= coll[t].position
             IN  coll[top].position + 1

\* find({"column_id": c}).sort("position", -1).limit(1), then
\* last_pos = 0; for d in last: last_pos = int(d["position"]) + 1
LastPos(coll, c) ==
    LET found == {t \in DOMAIN coll : coll[t].column_id = c}
    IN  IF found = {} THEN 0
        ELSE LET top == CHOOSE t \in found :
                           \A u \in found : coll[u].position <= coll[t].position
             IN  coll[top].position + 1

\* The handlers that take an id from the path.
IdOps == {"update_column", "delete_column", "update_task", "delete_task"}

Detail(msg) == [detail |-> msg]

Respond(op, id, body, status, out) ==
    last' = [op |-> op, id |-> id, body |-> body, status |-> status, out |-> out]

\* ---- workers ----
\* pc names the store call a worker makes next.  peer is the task a racing
\* worker wrote from the same read of the same column (0: none).
Worker(pc, op, id, body) ==
    [pc |-> pc, op |-> op, id |-> id, body |-> body,
     last_pos |-> 0, n |-> 0, target |-> 0, peer |-> 0, status |-> 0]

Idle == Worker("idle", "none", "", None)

\* ---- handlers, one request at a time (Spec) ----
Serve == nreq < MaxReqs /\ nreq' = nreq + 1 /\ UNCHANGED workers

\* x or d: d replaces a None and a falsy value (0, "", [])
OrInt(opt, d) == IF opt = None \/ opt = Some(0) THEN d ELSE opt[1]
OrStr(opt, d) == IF opt = None \/ opt = Some("") THEN d ELSE opt[1]
OrList(opt, d) == IF opt = None \/ opt = Some(<<>>) THEN d ELSE opt[1]

\* POST /api/columns
create_column(body) ==
    LET payload == ColumnCreate(body)
        col == [name |-> payload.name, position |-> OrInt(payload.position, 0)]
    IN  /\ Serve
        /\ nextOid <= MaxOid
        /\ column' = insert_one(column, nextOid, col)
        /\ nextOid' = nextOid + 1
        /\ Respond("create_column", "", body, 200, to_str_id(nextOid, col))
        /\ UNCHANGED task

\* PATCH /api/columns/{column_id}
update_column(column_id, body) ==
    LET oid == ObjectId(column_id)
        updates == Updates(body)
    IN  /\ Serve
        /\ IF oid = None
           THEN /\ Respond("update_column", column_id, body, 400,
                           Detail("Invalid column id"))
                /\ UNCHANGED column
           ELSE IF DOMAIN updates = {}
           THEN /\ Respond("update_column", column_id, body, 200,
                           [updated |-> FALSE])
                /\ UNCHANGED column
           ELSE /\ column' = update_one(column, oid[1], updates)
                /\ IF oid[1] \notin DOMAIN column'
                   THEN Respond("update_column", column_id, body, 404,
                                Detail("Column not found"))
                   ELSE Respond("update_column", column_id, body, 200,
                                to_str_id(oid[1], column'[oid[1]]))
        /\ UNCHANGED <<task, nextOid>>

\* DELETE /api/columns/{column_id}
delete_column(column_id) ==
    LET oid == ObjectId(column_id)
    IN  /\ Serve
        /\ IF oid = None
           THEN /\ Respond("delete_column", column_id, None, 400,
                           Detail("Invalid column id"))
                /\ UNCHANGED <<column, task>>
           ELSE /\ column' = delete_one(column, oid[1])
                /\ task' = delete_many(task, column_id)
                /\ IF oid[1] \notin DOMAIN column
                   THEN Respond("delete_column", column_id, None, 404,
                                Detail("Column not found"))
                   ELSE Respond("delete_column", column_id, None, 200,
                                [deleted |-> TRUE])
        /\ UNCHANGED nextOid

\* The document create_task builds from the payload and the computed position.
TaskDoc(payload, last_pos) ==
    [title |-> payload.title,
     description |-> IF payload.description = None THEN Null
                     ELSE payload.description[1],
     column_id |-> payload.column_id,
     position |-> last_pos,
     priority |-> OrStr(payload.priority, "normal"),
     tags |-> OrList(payload.tags, <<>>)]

\* POST /api/tasks
create_task(body) ==
    LET payload == TaskCreate(body)
        last_pos == LastPos(task, payload.column_id)
        t == TaskDoc(payload, last_pos)
    IN  /\ Serve
        /\ nextOid <= MaxOid
        /\ task' = insert_one(task, nextOid, t)
        /\ nextOid' = nextOid + 1
        /\ Respond("create_task", "", body, 200, to_str_id(nextOid, t))
        /\ UNCHANGED column

\* updates, with position appended when a column_id comes without one
MoveUpdates(updates, last_pos) ==
    [k \in DOMAIN updates \cup {"position"} |->
        IF k = "position" THEN last_pos ELSE updates[k]]

\* IsMove, had the test been "not updates.get('position')".
IsMove_falsy(updates) ==
    /\ "column_id" \in DOMAIN updates
    /\ "position" \notin DOMAIN updates \/ updates.position = 0

\* if "column_id" in updates and updates.get("position") is None
IsMove(updates) == "column_id" \in DOMAIN updates /\ "position" \notin DOMAIN updates

\* PATCH /api/tasks/{task_id}
update_task(task_id, body) ==
    LET oid == ObjectId(task_id)
        updates == Updates(body)
        final == IF IsMove(updates)
                 THEN MoveUpdates(updates, LastPos(task, updates.column_id))
                 ELSE updates
    IN  /\ Serve
        /\ IF oid = None
           THEN /\ Respond("update_task", task_id, body, 400,
                           Detail("Invalid task id"))
                /\ UNCHANGED task
           ELSE /\ task' = update_one(task, oid[1], final)
                /\ IF oid[1] \notin DOMAIN task'
                   THEN Respond("update_task", task_id, body, 404,
                                Detail("Task not found"))
                   ELSE Respond("update_task", task_id, body, 200,
                                to_str_id(oid[1], task'[oid[1]]))
        /\ UNCHANGED <<column, nextOid>>

\* DELETE /api/tasks/{task_id}
delete_task(task_id) ==
    LET oid == ObjectId(task_id)
    IN  /\ Serve
        /\ IF oid = None
           THEN /\ Respond("delete_task", task_id, None, 400,
                           Detail("Invalid task id"))
                /\ UNCHANGED task
           ELSE /\ task' = delete_one(task, oid[1])
                /\ IF oid[1] \notin DOMAIN task
                   THEN Respond("delete_task", task_id, None, 404,
                                Detail("Task not found"))
                   ELSE Respond("delete_task", task_id, None, 200,
                                [deleted |-> TRUE])
        /\ UNCHANGED <<column, nextOid>>

Init ==
    /\ column = <<>>
    /\ task = <<>>
    /\ nextOid = 1
    /\ nreq = 0
    /\ last = [op |-> "none", id |-> "", body |-> None, status |-> 0, out |-> None]
    /\ workers = [w \in Workers |-> Idle]

Next ==
    \/ \E body \in ColumnCreateBodies : create_column(body)
    \/ \E id \in PathIds, body \in ColumnUpdateBodies : update_column(id, body)
    \/ \E id \in PathIds : delete_column(id)
    \/ \E body \in TaskCreateBodies : create_task(body)
    \/ \E id \in PathIds, body \in TaskUpdateBodies : update_task(id, body)
    \/ \E id \in PathIds : delete_task(id)

Spec == Init /\ [][Next]_vars

\* ---- handlers on concurrent workers, one store call per step (SpecRace) ----
Free(w) == workers[w].pc \in {"idle", "done"}

Step(w, rec) ==
    /\ workers' = [workers EXCEPT ![w] = rec]
    /\ UNCHANGED <<nreq, last>>

\* The response is sent: the request and its locals are gone; what the
\* worker wrote stays on record.
Finish(w, status) ==
    [Worker("done", workers[w].op, "", None) EXCEPT
        !.status = status, !.target = workers[w].target, !.peer = workers[w].peer]

\* The handler has made its write on document t and goes on to fetch it:
\* only the fetch is left of the request.
Written(w, t) ==
    [Worker("find_one", workers[w].op, "", None) EXCEPT
        !.target = t, !.peer = workers[w].peer]

\* A request arrives: the handler runs up to its first store call.
Begin(w, op, id, body) ==
    /\ Free(w)
    /\ nreq < MaxRaceReqs
    /\ nreq' = nreq + 1
    /\ workers' = [workers EXCEPT ![w] =
          IF op \in IdOps /\ ObjectId(id) = None
          THEN [Worker("done", op, "", None) EXCEPT !.status = 400]
          ELSE IF op = "update_column" /\ DOMAIN Updates(body) = {}
          THEN [Worker("done", op, "", None) EXCEPT !.status = 200]
          ELSE IF op = "update_task" /\ ~IsMove(Updates(body))
          THEN Worker("update_task:update_one", op, id, body)
          ELSE Worker(CASE op = "create_column" -> "create_column:insert_one"
                        [] op = "update_column" -> "update_column:update_one"
                        [] op = "delete_column" -> "delete_column:delete_one"
                        [] op = "create_task" -> "create_task:find"
                        [] op = "update_task" -> "update_task:find"
                        [] op = "delete_task" -> "delete_task:delete_one",
                      op, id, body)]
    /\ UNCHANGED <<column, task, nextOid, last>>

At(w, pc) == workers[w].pc = pc

\* The column a pending position write of worker record r targets.
TargetColumn(r) ==
    IF r.op = "create_task" THEN r.body.column_id ELSE r.body.column_id[1]

\* Worker w writes task t at the position it read: every other worker that
\* has read the same last position of the same column and has not written
\* yet now holds a stale read; it remembers t.
MarkPeers(w, rec, t) ==
    [v \in Workers |->
        IF v = w THEN rec
        ELSE IF /\ workers[v].pc \in {"create_task:insert_one", "update_task:update_one"}
                /\ workers[v].op = "create_task" \/ IsMove(Updates(workers[v].body))
                /\ TargetColumn(workers[v]) = TargetColumn(workers[w])
                /\ workers[v].last_pos = workers[w].last_pos
             THEN [workers[v] EXCEPT !.peer = t]
             ELSE workers[v]]

\* create_column: create_document("column", col)
create_column_insert_one(w) ==
    LET payload == ColumnCreate(workers[w].body)
        col == [name |-> payload.name, position |-> OrInt(payload.position, 0)]
    IN  /\ At(w, "create_column:insert_one")
        /\ nextOid <= MaxOid
        /\ column' = insert_one(column, nextOid, col)
        /\ nextOid' = nextOid + 1
        /\ Step(w, Written(w, nextOid))
        /\ UNCHANGED task

\* update_column: db["column"].update_one
update_column_update_one(w) ==
    /\ At(w, "update_column:update_one")
    /\ column' = update_one(column, ObjectId(workers[w].id)[1],
                            Updates(workers[w].body))
    /\ Step(w, Written(w, ObjectId(workers[w].id)[1]))
    /\ UNCHANGED <<task, nextOid>>

\* delete_column: db["column"].delete_one
delete_column_delete_one(w) ==
    LET oid == ObjectId(workers[w].id)[1]
    IN  /\ At(w, "delete_column:delete_one")
        /\ column' = delete_one(column, oid)
        /\ Step(w, [workers[w] EXCEPT !.pc = "delete_column:delete_many",
                       !.n = IF oid \in DOMAIN column THEN 1 ELSE 0])
        /\ UNCHANGED <<task, nextOid>>

\* delete_column: db["task"].delete_many, then the deleted_count test
delete_column_delete_many(w) ==
    /\ At(w, "delete_column:delete_many")
    /\ task' = delete_many(task, workers[w].id)
    /\ Step(w, Finish(w, IF workers[w].n = 0 THEN 404 ELSE 200))
    /\ UNCHANGED <<column, nextOid>>

\* create_task: the find that computes last_pos
create_task_find(w) ==
    /\ At(w, "create_task:find")
    /\ Step(w, [workers[w] EXCEPT !.pc = "create_task:insert_one",
                   !.last_pos = LastPos(task, TaskCreate(workers[w].body).column_id)])
    /\ UNCHANGED <<column, task, nextOid>>

\* create_task_insert_one, had the position been computed by the insert.
create_task_insert_one_atomic(w) ==
    LET payload == TaskCreate(workers[w].body)
        t == TaskDoc(payload, LastPos(task, payload.column_id))
    IN  /\ At(w, "create_task:insert_one")
        /\ nextOid <= MaxOid
        /\ task' = insert_one(task, nextOid, t)
        /\ nextOid' = nextOid + 1
        /\ workers' = MarkPeers(w, Written(w, nextOid), nextOid)
        /\ UNCHANGED <<column, nreq, last>>

\* create_task: create_document("task", t) with the last_pos read before
create_task_insert_one(w) ==
    LET t == TaskDoc(TaskCreate(workers[w].body), workers[w].last_pos)
    IN  /\ At(w, "create_task:insert_one")
        /\ nextOid <= MaxOid
        /\ task' = insert_one(task, nextOid, t)
        /\ nextOid' = nextOid + 1
        /\ workers' = MarkPeers(w, Written(w, nextOid), nextOid)
        /\ UNCHANGED <<column, nreq, last>>

\* update_task: the find that computes last_pos for a move
update_task_find(w) ==
    /\ At(w, "update_task:find")
    /\ Step(w, [workers[w] EXCEPT !.pc = "update_task:update_one",
                   !.last_pos = LastPos(task, Updates(workers[w].body).column_id)])
    /\ UNCHANGED <<column, task, nextOid>>

\* update_task: db["task"].update_one with the last_pos read before
update_task_update_one(w) ==
    LET oid == ObjectId(workers[w].id)[1]
        updates == Updates(workers[w].body)
        final == IF IsMove(updates)
                 THEN MoveUpdates(updates, workers[w].last_pos)
                 ELSE updates
        rec == Written(w, oid)
    IN  /\ At(w, "update_task:update_one")
        /\ task' = update_one(task, oid, final)
        /\ workers' = IF IsMove(updates) /\ oid \in DOMAIN task
                      THEN MarkPeers(w, rec, oid)
                      ELSE [workers EXCEPT ![w] = rec]
        /\ UNCHANGED <<column, nextOid, nreq, last>>

\* delete_task: db["task"].delete_one, then the deleted_count test
delete_task_delete_one(w) ==
    LET oid == ObjectId(workers[w].id)[1]
    IN  /\ At(w, "delete_task:delete_one")
        /\ task' = delete_one(task, oid)
        /\ Step(w, Finish(w, IF oid \in DOMAIN task THEN 200 ELSE 404))
        /\ UNCHANGED <<column, nextOid>>

\* The find_one that fetches the document to return; the two updates answer
\* 404 when it finds none.
find_one(w) ==
    LET coll == IF workers[w].op \in {"create_column", "update_column"}
                THEN column ELSE task
        found == workers[w].target \in DOMAIN coll
    IN  /\ At(w, "find_one")
        /\ Step(w, Finish(w, IF ~found /\ workers[w].op \in {"update_column", "update_task"}
                             THEN 404 ELSE 200))
        /\ UNCHANGED <<column, task, nextOid>>

NextRace ==
    \E w \in Workers :
        \/ \E body \in ColumnCreateBodies : Begin(w, "create_column", "", body)
        \/ \E id \in PathIds, body \in ColumnUpdateBodies :
              Begin(w, "update_column", id, body)
        \/ \E id \in PathIds : Begin(w, "delete_column", id, None)
        \/ \E body \in TaskCreateBodies : Begin(w, "create_task", "", body)
        \/ \E id \in PathIds, body \in TaskUpdateBodies :
              Begin(w, "update_task", id, body)
        \/ \E id \in PathIds : Begin(w, "delete_task", id, None)
        \/ create_column_insert_one(w)
        \/ update_column_update_one(w)
        \/ delete_column_delete_one(w)
        \/ delete_column_delete_many(w)
        \/ create_task_find(w)
        \/ create_task_insert_one(w)
        \/ update_task_find(w)
        \/ update_task_update_one(w)
        \/ delete_task_delete_one(w)
        \/ find_one(w)

SpecRace == Init /\ [][NextRace]_vars

\* ---- properties of Spec ----
\* Each request of Spec is one step; last' is the request just served and
\* the unprimed collections are the store it started from.

\* The id strings ObjectId() accepts.
WellFormed(s) == \E n \in Oids : s = OidStr(n) \/ s = OidUpper(n)
OidOf(s) == CHOOSE n \in Oids : s = OidStr(n) \/ s = OidUpper(n)

InColumn(coll, c) == {t \in DOMAIN coll : coll[t].column_id = c}

\* p is one past the largest position in the set of tasks ts, 0 for no tasks.
EndOf(coll, ts, p) ==
    IF ts = {} THEN p = 0
    ELSE /\ \E t \in ts : coll[t].position + 1 = p
         /\ \A t \in ts : coll[t].position < p

\* C1: a Create Task request without a position stores the new task at one
\* past the largest position of the tasks already in its column, 0 when the
\* column has none.
C1_CreateAppends ==
    [][(last'.op = "create_task" /\ last'.body.position = None) =>
        LET c == last'.body.column_id
        IN  /\ DOMAIN task' = DOMAIN task \cup {nextOid}
            /\ nextOid \notin DOMAIN task
            /\ task'[nextOid].column_id = c
            /\ EndOf(task, InColumn(task, c), task'[nextOid].position)
            /\ last'.out.position = task'[nextOid].position]_vars

\* A task created without a position behind a column whose positions have a
\* gap: it lands on the maximum plus one, not on the count.
C1_Witness ==
    /\ last.op = "create_task"
    /\ last.body.position = None
    /\ last.out.position = MaxPos + 1
    /\ Cardinality(InColumn(task, last.body.column_id)) = 2

\* C2: a Create Task request with an explicit position p stores the new task
\* with position p.
C2_ExplicitPositionStored ==
    [][(last'.op = "create_task" /\ last'.body.position # None) =>
        task'[nextOid].position = last'.body.position[1]]_vars

\* C3: a Delete Column that succeeds for id C removes column C and every
\* task whose column_id is the string C, and leaves every other column and
\* every other task present and unchanged.
C3_DeleteColumnCascade ==
    [][(last'.op = "delete_column" /\ last'.status = 200) =>
        LET C == last'.id
            oid == OidOf(C)
        IN  /\ oid \in DOMAIN column
            /\ DOMAIN column' = DOMAIN column \ {oid}
            /\ \A o \in DOMAIN column' : column'[o] = column[o]
            /\ DOMAIN task' = DOMAIN task \ InColumn(task, C)
            /\ \A t \in DOMAIN task' : task'[t] = task[t]]_vars

\* A column was deleted together with a task of its own while a task of
\* another column stayed.
C3_Witness ==
    /\ last.op = "delete_column"
    /\ last.status = 200
    /\ DOMAIN task # {}
    /\ (nextOid - 1) - Cardinality(DOMAIN column) - Cardinality(DOMAIN task) >= 2

Missing(op, oid) ==
    IF op \in {"update_column", "delete_column"}
    THEN oid \notin DOMAIN column
    ELSE oid \notin DOMAIN task

EmptyPatch(body) == \A f \in DOMAIN body : body[f] = None

\* C4 as claimed: the four operations answer 404 to a well-formed id that
\* matches no stored document, whatever the body.
C4_NotFoundForEveryBody ==
    [][(/\ last'.op \in IdOps
        /\ WellFormed(last'.id)
        /\ Missing(last'.op, OidOf(last'.id))) =>
        last'.status = 404]_vars

\* C4 amended: the four operations answer 404 to a well-formed id that
\* matches no stored document, except Update Column with a body that
\* supplies no field, which answers {updated: false}.
C4_NotFoundUnlessEmptyColumnPatch ==
    [][(/\ last'.op \in IdOps
        /\ WellFormed(last'.id)
        /\ Missing(last'.op, OidOf(last'.id))) =>
        IF last'.op = "update_column" /\ EmptyPatch(last'.body)
        THEN last'.status = 200 /\ last'.out = [updated |-> FALSE]
        ELSE last'.status = 404]_vars

\* An Update Task with an empty body for an id that matches no task was
\* answered 404.
C4_Witness ==
    /\ last.op = "update_task"
    /\ last.status = 404
    /\ EmptyPatch(last.body)
    /\ OidOf(last.id) \notin DOMAIN task

\* C5: the four operations answer 400 to a malformed id and leave both
\* collections as they were, whatever the body.
C5_InvalidIdTouchesNothing ==
    [][(last'.op \in IdOps /\ ~WellFormed(last'.id)) =>
        /\ last'.status = 400
        /\ column' = column
        /\ task' = task]_vars

\* A malformed id was refused while the store held a column and a task.
C5_Witness ==
    /\ last.op \in IdOps
    /\ ~WellFormed(last.id)
    /\ last.status = 400
    /\ DOMAIN column # {}
    /\ DOMAIN task # {}

\* C6: Update Column with a well-formed id and a body without name and
\* position answers {updated: false}, not an error, and changes nothing.
C6_EmptyColumnPatch ==
    [][(/\ last'.op = "update_column"
        /\ WellFormed(last'.id)
        /\ last'.body.name = None
        /\ last'.body.position = None) =>
        /\ last'.status = 200
        /\ last'.out = [updated |-> FALSE]
        /\ column' = column
        /\ task' = task]_vars

\* An empty patch was sent to a column that exists.
C6_Witness ==
    /\ last.op = "update_column"
    /\ last.status = 200
    /\ last.out = [updated |-> FALSE]
    /\ WellFormed(last.id)
    /\ OidOf(last.id) \in DOMAIN column

\* C7: Update Task on an existing task with column_id D in the body stores
\* column_id D; without a position the task lands one past the largest
\* position D held before the update (0 for an empty D), with a position
\* (0 included) the position is stored as given.
C7_MoveAppends ==
    [][(/\ last'.op = "update_task"
        /\ WellFormed(last'.id)
        /\ OidOf(last'.id) \in DOMAIN task
        /\ last'.body.column_id # None) =>
        LET oid == OidOf(last'.id)
            D == last'.body.column_id[1]
        IN  /\ oid \in DOMAIN task'
            /\ task'[oid].column_id = D
            /\ IF last'.body.position # None
               THEN task'[oid].position = last'.body.position[1]
               ELSE EndOf(task, InColumn(task, D), task'[oid].position)]_vars

\* A task was moved without a position behind another task of the target
\* column.
C7_Witness ==
    /\ last.op = "update_task"
    /\ last.status = 200
    /\ last.body.column_id # None
    /\ last.body.position = None
    /\ \E t \in DOMAIN task :
          /\ t # OidOf(last.id)
          /\ task[t].column_id = last.body.column_id[1]
          /\ task[t].position + 1 = task[OidOf(last.id)].position
          /\ task[t].position > 0

Supplied(body) == {f \in DOMAIN body : body[f] # None}

\* The fields an update may change: the supplied ones, and position when a
\* task body sets column_id without a position.
MayChange(op, body) ==
    Supplied(body) \cup
    (IF op = "update_task" /\ body.column_id # None /\ body.position = None
     THEN {"position"} ELSE {})

\* Only document oid of the collection changed, and only in the fields fs;
\* no document appeared or disappeared.
OnlyChanged(before, after, oid, fs) ==
    /\ DOMAIN after = DOMAIN before
    /\ \A o \in DOMAIN before :
          /\ DOMAIN after[o] = DOMAIN before[o]
          /\ \A f \in DOMAIN before[o] :
                (o # oid \/ f \notin fs) => after[o][f] = before[o][f]

\* C8: a successful Update Column or Update Task changes only the targeted
\* document, and of it only the fields the body supplies (and position when
\* a task body sets column_id without a position); no update, successful or
\* not, creates a document.
C8_UpdateFrame ==
    [][last'.op \in {"update_column", "update_task"} =>
        /\ DOMAIN column' = DOMAIN column
        /\ DOMAIN task' = DOMAIN task
        /\ last'.status = 200 =>
              LET oid == OidOf(last'.id)
                  fs == MayChange(last'.op, last'.body)
              IN  IF last'.op = "update_column"
                  THEN /\ OnlyChanged(column, column', oid, fs)
                       /\ task' = task
                       /\ EmptyPatch(last'.body) \/ last'.out.id = OidStr(oid)
                  ELSE /\ OnlyChanged(task, task', oid, fs)
                       /\ column' = column
                       /\ last'.out.id = OidStr(oid)]_vars

\* A task was retitled while a second task and a column were stored.
C8_Witness ==
    /\ last.op = "update_task"
    /\ last.status = 200
    /\ last.body.title = Some("B")
    /\ task[OidOf(last.id)].title = "B"
    /\ \E t \in DOMAIN task : task[t].title = "A"
    /\ DOMAIN column # {}

\* C9: a Delete Column answered 404 removed no task and changed nothing.
C9_NotFoundIsNoOp ==
    [][(last'.op = "delete_column" /\ last'.status = 404) =>
        task' = task /\ column' = column]_vars

\* ---- properties of SpecRace ----
\* Worker record r has read a last position and not yet written it.
PendingWrite(r) ==
    /\ r.pc \in {"create_task:insert_one", "update_task:update_one"}
    /\ r.op = "create_task" \/ IsMove(Updates(r.body))

\* The task the pending write of r lands on.
WriteTarget(r) == IF r.op = "create_task" THEN nextOid ELSE ObjectId(r.id)[1]

\* C10: nothing locks the position between its read and its write: when a
\* worker writes the position it read after another request, which read the
\* same last position of the same column, has written its task there, the
\* two different tasks hold the same column and the same position.
C10_StaleReadDuplicates ==
    [][\A v \in Workers :
        LET r == workers[v]
            t == WriteTarget(r)
        IN  (/\ PendingWrite(r)
             /\ workers'[v].pc = "find_one"
             /\ r.peer \in DOMAIN task
             /\ t # r.peer
             /\ r.op = "update_task" => t \in DOMAIN task
             /\ task[r.peer].column_id = TargetColumn(r)
             /\ task[r.peer].position = r.last_pos)
            => /\ {t, r.peer} \subseteq DOMAIN task'
               /\ task'[t].column_id = task'[r.peer].column_id
               /\ task'[t].position = task'[r.peer].position]_vars

\* Two requests read the same last position before either wrote, and their
\* two tasks now share a column and a position.
C10_Witness ==
    \E v \in Workers :
        LET r == workers[v]
        IN  /\ r.pc \in {"find_one", "done"}
            /\ r.op \in {"create_task", "update_task"}
            /\ r.peer # 0
            /\ r.target # r.peer
            /\ {r.target, r.peer} \subseteq DOMAIN task
            /\ task[r.target].column_id = task[r.peer].column_id
            /\ task[r.target].position = task[r.peer].position

====
